---- MODULE Spec2Model ----
(***************************************************************************)
(* Vectors and 4x4 matrices of package geom (matrix.go).                   *)
(*                                                                         *)
(* Every component of Vec3, Vec4 and Mat4 is a float64.  The model keeps   *)
(* the IEEE-754 binary format and its arithmetic (round to nearest, ties   *)
(* to even, gradual underflow, signed zeros, infinities, NaN) and shrinks  *)
(* only the width: a finite value is a sign and a magnitude n counted in   *)
(* units of the smallest subnormal, n = m * 2^e with m < 2^PrecBits and    *)
(* 0 <= e <= ExpSpan.  The value 1.0 is 2^FracBits units.  float64 is the  *)
(* same format with PrecBits = 53, FracBits = 1074, ExpSpan = 2045.        *)
(***************************************************************************)
EXTENDS Integers, Sequences, FiniteSets

\* ------------------------------------------------------------ the format

\* Width of the significand, hidden bit included.
PrecBits == 3
\* 1.0 is 2^FracBits units of the smallest subnormal.
FracBits == 4
\* Number of binades above the subnormal one.
ExpSpan == 6

One == 2 ^ FracBits
MaxFin == (2 ^ PrecBits - 1) * 2 ^ ExpSpan

Fin(s, n) == [k |-> "fin", s |-> s, n |-> n]
Inf(s) == [k |-> "inf", s |-> s, n |-> 0]
NaN == [k |-> "nan", s |-> 0, n |-> 0]

PZero == Fin(0, 0)
NZero == Fin(1, 0)
FOne == Fin(0, One)

IsNaN(x) == x.k = "nan"
IsInf(x) == x.k = "inf"
IsFin(x) == x.k = "fin"
IsZero(x) == x.k = "fin" /\ x.n = 0

\* The magnitudes a finite float64 can hold.
Representable(n) ==
    /\ n \in 0..MaxFin
    /\ \E e \in 0..ExpSpan : n % (2 ^ e) = 0 /\ n \div (2 ^ e) < 2 ^ PrecBits

Xor(a, b) == IF a = b THEN 0 ELSE 1
Abs(i) == IF i < 0 THEN -i ELSE i
SignOf(i) == IF i < 0 THEN 1 ELSE 0
\* The signed number of units of a finite float.
SVal(x) == IF x.s = 1 THEN -x.n ELSE x.n

\* The binade of num/den units: the least e >= from with
\* num/den < 2^(PrecBits+e), or ExpSpan + 1 when there is none up to ExpSpan.
RECURSIVE Binade(_, _, _)
Binade(num, den, from) ==
    IF from > ExpSpan \/ num < 2 ^ (PrecBits + from) * den THEN from
    ELSE Binade(num, den, from + 1)

\* num/den units rounded to the nearest magnitude of the format, ties to
\* even; MaxFin + 1 stands for a result beyond the largest finite value.
RoundMag(num, den) ==
    LET e == Binade(num, den, 0)
    IN  IF e > ExpSpan THEN MaxFin + 1
        ELSE LET D == den * 2 ^ e
                 q == num \div D
                 r == num % D
                 m == IF 2 * r > D \/ (2 * r = D /\ q % 2 = 1) THEN q + 1 ELSE q
             IN  IF m * 2 ^ e > MaxFin THEN MaxFin + 1 ELSE m * 2 ^ e

\* The float nearest to the real (-1)^s * num/den units.
Rnd(s, num, den) ==
    LET r == RoundMag(num, den)
    IN  IF r > MaxFin THEN Inf(s) ELSE Fin(s, r)

\* -x
Fneg(x) == IF IsNaN(x) THEN NaN ELSE [x EXCEPT !.s = 1 - x.s]

\* x * y
Fmul(x, y) ==
    IF IsNaN(x) \/ IsNaN(y) THEN NaN
    ELSE IF (IsInf(x) /\ IsZero(y)) \/ (IsZero(x) /\ IsInf(y)) THEN NaN
    ELSE IF IsInf(x) \/ IsInf(y) THEN Inf(Xor(x.s, y.s))
    ELSE Rnd(Xor(x.s, y.s), x.n * y.n, One)

\* x / y
Fdiv(x, y) ==
    IF IsNaN(x) \/ IsNaN(y) THEN NaN
    ELSE IF (IsInf(x) /\ IsInf(y)) \/ (IsZero(x) /\ IsZero(y)) THEN NaN
    ELSE IF IsInf(x) \/ IsZero(y) THEN Inf(Xor(x.s, y.s))
    ELSE IF IsInf(y) THEN Fin(Xor(x.s, y.s), 0)
    ELSE Rnd(Xor(x.s, y.s), x.n * One, y.n)

\* x + y
Fadd(x, y) ==
    IF IsNaN(x) \/ IsNaN(y) THEN NaN
    ELSE IF IsInf(x) /\ IsInf(y) THEN (IF x.s = y.s THEN x ELSE NaN)
    ELSE IF IsInf(x) THEN x
    ELSE IF IsInf(y) THEN y
    ELSE LET t == SVal(x) + SVal(y)
         IN  IF t = 0 THEN Fin(IF x.s = 1 /\ y.s = 1 THEN 1 ELSE 0, 0)
             ELSE Rnd(SignOf(t), Abs(t), 1)

\* x - y
Fsub(x, y) == Fadd(x, Fneg(y))

\* x*y + z rounded once (a fused multiply-add).
Ffma(x, y, z) ==
    IF IsNaN(x) \/ IsNaN(y) \/ IsNaN(z) THEN NaN
    ELSE IF (IsInf(x) /\ IsZero(y)) \/ (IsZero(x) /\ IsInf(y)) THEN NaN
    ELSE IF IsInf(x) \/ IsInf(y)
         THEN (IF IsInf(z) /\ z.s # Xor(x.s, y.s) THEN NaN ELSE Inf(Xor(x.s, y.s)))
    ELSE IF IsInf(z) THEN z
    ELSE LET sp == Xor(x.s, y.s)
             t == (IF sp = 1 THEN -(x.n * y.n) ELSE x.n * y.n) + SVal(z) * One
         IN  IF t = 0 THEN Fin(IF sp = 1 /\ z.s = 1 THEN 1 ELSE 0, 0)
             ELSE Rnd(SignOf(t), Abs(t), One)

\* The largest s with s*s <= r.
ISqrt(r) == CHOOSE s \in 0..(2 ^ ((PrecBits + ExpSpan + FracBits) \div 2 + 1)) :
                s * s <= r /\ r < (s + 1) * (s + 1)

\* math.Sqrt(x), correctly rounded.
Fsqrt(x) ==
    IF IsNaN(x) THEN NaN
    ELSE IF IsZero(x) THEN x
    ELSE IF x.s = 1 THEN NaN
    ELSE IF IsInf(x) THEN x
    ELSE LET r == x.n * One
             s == ISqrt(r)
             e == Binade(s, 1, 0)
             q == s \div (2 ^ e)
             h == (2 * q + 1) * 2 ^ e
             m == IF 4 * r > h * h \/ (4 * r = h * h /\ q % 2 = 1) THEN q + 1 ELSE q
         IN  Fin(0, m * 2 ^ e)

\* Go's x == y on float64: NaN equals nothing, -0 equals +0.
Feq(x, y) == ~IsNaN(x) /\ ~IsNaN(y) /\ (x = y \/ (IsZero(x) /\ IsZero(y)))

\* ------------------------------------------------- fused multiply-add

\* The Go compiler may fuse x*y + z into one operation rounded once (the
\* language allows it; arm64, ppc64 and s390x builds do it).  Which
\* product of an expression is kept unrounded is the build's choice:
\* "none" rounds every product, "left" and "right" fuse the left or the
\* right product of a sum or difference of two products.
FuseModes == {"none", "left", "right"}

\* acc + x*y, as in `acc += x * y`.
MulAdd(f, acc, x, y) ==
    IF f = "none" THEN Fadd(acc, Fmul(x, y)) ELSE Ffma(x, y, acc)

\* a*b - c*d
ProdDiff(f, a, b, c, d) ==
    CASE f = "none"  -> Fsub(Fmul(a, b), Fmul(c, d))
      [] f = "left"  -> Ffma(a, b, Fneg(Fmul(c, d)))
      [] f = "right" -> Ffma(Fneg(c), d, Fmul(a, b))

\* x*x + y*y + z*z, summed left to right.
SumSq(f, x, y, z) ==
    CASE f = "none"  -> Fadd(Fadd(Fmul(x, x), Fmul(y, y)), Fmul(z, z))
      [] f = "left"  -> Ffma(z, z, Ffma(x, x, Fmul(y, y)))
      [] f = "right" -> Ffma(z, z, Ffma(y, y, Fmul(x, x)))

\* ------------------------------------------------------------------ Vec3

\* type Vec3 [3]float64: components x, y, z at indices 0, 1, 2.
Vec3Len == 3
Idx3 == 0..(Vec3Len - 1)
MkVec3(x, y, z) == [i \in Idx3 |-> CASE i = 0 -> x [] i = 1 -> y [] OTHER -> z]

\* Norm without its test of abs.
Vec3NormUnguarded(f, v) ==
    LET abs == Fsqrt(SumSq(f, v[0], v[1], v[2]))
    IN  [v |-> [i \in Idx3 |-> Fdiv(v[i], abs)], abs |-> abs, div |-> TRUE]

\* The outcome of (v *Vec3).Norm(): the vector, the local abs, and whether
\* the guarded divisions ran.
Vec3Norm(f, v) ==
    LET abs == Fsqrt(SumSq(f, v[0], v[1], v[2]))
    IN  IF ~Feq(abs, PZero)
        THEN [v |-> [i \in Idx3 |-> Fdiv(v[i], abs)], abs |-> abs, div |-> TRUE]
        ELSE [v |-> v, abs |-> abs, div |-> FALSE]

\* (v *Vec3).Neg()
Vec3Neg(v) == [i \in Idx3 |-> Fneg(v[i])]

\* Sub with its last statement reading w[1].
Vec3SubSlip(st, a, b) ==
    LET s0 == [st EXCEPT ![a][0] = Fsub(st[a][0], st[b][0])]
        s1 == [s0 EXCEPT ![a][1] = Fsub(s0[a][1], s0[b][1])]
    IN  [s1 EXCEPT ![a][2] = Fsub(s1[a][2], s1[b][1])]

\* (v *Vec3).Sub(w) on storage st: three statements, each reading the
\* storage as the statements before it left it (v and w may be one array).
Vec3Sub(st, a, b) ==
    LET s0 == [st EXCEPT ![a][0] = Fsub(st[a][0], st[b][0])]
        s1 == [s0 EXCEPT ![a][1] = Fsub(s0[a][1], s0[b][1])]
    IN  [s1 EXCEPT ![a][2] = Fsub(s1[a][2], s1[b][2])]

\* (v *Vec3).Add(w) on storage st.
Vec3Add(st, a, b) ==
    LET s0 == [st EXCEPT ![a][0] = Fadd(st[a][0], st[b][0])]
        s1 == [s0 EXCEPT ![a][1] = Fadd(s0[a][1], s0[b][1])]
    IN  [s1 EXCEPT ![a][2] = Fadd(s1[a][2], s1[b][2])]

\* Cross with its last product reading w[1] for w[0].
CrossSlip(f, v, w) ==
    MkVec3(ProdDiff(f, v[1], w[2], v[2], w[1]),
           ProdDiff(f, v[2], w[0], v[0], w[2]),
           ProdDiff(f, v[0], w[1], v[1], w[1]))

\* Cross(v, w)
Cross(f, v, w) ==
    MkVec3(ProdDiff(f, v[1], w[2], v[2], w[1]),
           ProdDiff(f, v[2], w[0], v[0], w[2]),
           ProdDiff(f, v[0], w[1], v[1], w[0]))

\* ------------------------------------------------------------------ Vec4

\* type Vec4 [4]float64: components x, y, z, w at indices 0..3.
Vec4Len == 4
Idx4 == 0..(Vec4Len - 1)
MkVec4(x, y, z, w) ==
    [i \in Idx4 |-> CASE i = 0 -> x [] i = 1 -> y [] i = 2 -> z [] OTHER -> w]

\* Norm that leaves the vector alone when w == 0.
Vec4NormGuarded(v) ==
    IF Feq(v[3], PZero) THEN v
    ELSE [i \in Idx4 |-> IF i = 3 THEN FOne ELSE Fdiv(v[i], v[3])]

\* (v *Vec4).Norm(): four statements in order, no test of v[3].
Vec4Norm(v) ==
    LET v0 == [v EXCEPT ![0] = Fdiv(v[0], v[3])]
        v1 == [v0 EXCEPT ![1] = Fdiv(v0[1], v0[3])]
        v2 == [v1 EXCEPT ![2] = Fdiv(v1[2], v1[3])]
    IN  [v2 EXCEPT ![3] = FOne]

\* NewVec4(x, y, z)
NewVec4(x, y, z) == MkVec4(x, y, z, FOne)

\* ------------------------------------------------------------------ Mat4

\* type Mat4 [16]float64, row i column j at index i*4+j.
MatLen == 16
MatDim == 4
IdxM == 0..(MatLen - 1)

\* ZeroMat()
ZeroMat == [i \in IdxM |-> PZero]

\* The random source r *rand.Rand: the stream it was seeded with and the
\* number of values drawn so far.  Float64 returns the next value of the
\* stream, which lies in [0, 1), and advances the source by one.  The k-th
\* value of the stream seeded with seed:
StreamAt(seed, k) == Fin(0, (((seed + 1) * k) + seed) % (2 ^ PrecBits))
Float64(r) == [val |-> StreamAt(r.seed, r.pos + 1),
               r |-> [r EXCEPT !.pos = r.pos + 1]]

\* The loop of RandMat from index i on: m[i] = r.Float64().
RECURSIVE RandMatLoop(_, _, _)
RandMatLoop(m, r, i) ==
    IF i < MatLen
    THEN LET d == Float64(r)
         IN  RandMatLoop([m EXCEPT ![i] = d.val], d.r, i + 1)
    ELSE [m |-> m, r |-> r]

\* RandMat filling from the last index down.
RECURSIVE RandMatDown(_, _, _)
RandMatDown(m, r, i) ==
    IF i >= 0
    THEN LET d == Float64(r)
         IN  RandMatDown([m EXCEPT ![i] = d.val], d.r, i - 1)
    ELSE [m |-> m, r |-> r]
RandMatBackwards(r) == RandMatDown(ZeroMat, r, MatLen - 1)

\* RandMat(r): the new matrix and the source as the call leaves it.
RandMat(r) == RandMatLoop(ZeroMat, r, 0)

\* The k loop of Mul for one (i, j): t[i*4+j] += m[i*4+k] * n[j+k*4], with
\* m = st[a] and n = st[b] read from the storage, acc being t[i*4+j].
RECURSIVE MulK(_, _, _, _, _, _, _, _)
MulK(f, st, acc, a, b, i, j, k) ==
    IF k < MatDim
    THEN MulK(f, st, MulAdd(f, acc, st[a][i * 4 + k], st[b][j + k * 4]),
              a, b, i, j, k + 1)
    ELSE acc

\* The i and j loops of Mul: iteration (i, j) is the only writer of
\* t[i*4+j], which starts as ZeroMat's 0; the storage is not written.
MulLoops(f, st, a, b) ==
    [x \in IdxM |-> MulK(f, st, ZeroMat[x], a, b, x \div MatDim, x % MatDim, 0)]

\* Mul reading n by rows: n[j*4+k] for n[j+k*4].
RECURSIVE MulKT(_, _, _, _, _, _, _, _)
MulKT(f, st, acc, a, b, i, j, k) ==
    IF k < MatDim
    THEN MulKT(f, st, MulAdd(f, acc, st[a][i * 4 + k], st[b][j * 4 + k]),
               a, b, i, j, k + 1)
    ELSE acc
Mat4MulTransposed(f, st, a, b) ==
    [st EXCEPT ![a] =
        [x \in IdxM |-> MulKT(f, st, PZero, a, b, x \div MatDim, x % MatDim, 0)]]

\* Mul without the buffer t: each m[i*4+j], in index order, is summed from
\* the array as the elements before it left it and stored at once.
RECURSIVE MulInPlaceLoop(_, _, _, _, _)
MulInPlaceLoop(f, st, a, b, c) ==
    IF c < MatLen
    THEN LET x == MulK(f, st, PZero, a, b, c \div MatDim, c % MatDim, 0)
         IN  MulInPlaceLoop(f, [st EXCEPT ![a][c] = x], a, b, c + 1)
    ELSE st
Mat4MulInPlace(f, st, a, b) == MulInPlaceLoop(f, st, a, b, 0)

\* (m *Mat4).Mul(n) with m = st[a], n = st[b]: t := ZeroMat(), the loops,
\* then *m = *t.
Mat4Mul(f, st, a, b) == [st EXCEPT ![a] = MulLoops(f, st, a, b)]

\* The j loop of Transf for one i: p[i] += m[i*4+j] * v[j], acc being p[i].
RECURSIVE TransfJ(_, _, _, _, _, _)
TransfJ(f, acc, m, v, i, j) ==
    IF j < MatDim
    THEN TransfJ(f, MulAdd(f, acc, m[i * 4 + j], v[j]), m, v, i, j + 1)
    ELSE acc

\* Transf that normalizes what it returns.
TransfNormalizing(f, m, v) == Vec4Norm([i \in Idx4 |-> TransfJ(f, PZero, m, v, i, 0)])

\* (m *Mat4).Transf(v): p := Vec4{0, 0, 0, 0}, the loops, return &p.
Transf(f, m, v) == [i \in Idx4 |-> TransfJ(f, PZero, m, v, i, 0)]

\* ------------------------------------------------------------- the state

VARIABLES
    fuse,   \* how the build fuses multiply-adds
    vec,    \* the Vec3 arrays, by name; two pointers may name one array
    h,      \* a Vec4 array
    mat,    \* the Mat4 arrays, by name
    rng,    \* the random source
    ret,    \* what the last call returned (<<>> when it returns nothing)
    hist,   \* the calls just made, newest first, each with the state before it
    steps   \* number of calls made, where a run bounds them

vars == <<fuse, vec, h, mat, rng, ret, hist, steps>>

\* Calls per run in the specifications that bound them.
MaxSteps == 2
\* Values a random source hands out in a run.
MaxDraws == 32
\* Seeds of the random source.
MaxSeed == 1

VecNames == {"v", "w"}
MatNames == {"A", "B", "C"}

Zero3 == MkVec3(PZero, PZero, PZero)
Zero4 == MkVec4(PZero, PZero, PZero, PZero)

\* Keeps the call before this one too, for what is said of two calls in a row.
Push(e) == hist' = <<e>> \o (IF hist = <<>> THEN <<>> ELSE <<hist[1]>>)

\* ------------------------------------------------------------ the calls

\* vec[a].Norm()
CallVec3Norm(a) ==
    LET r == Vec3Norm(fuse, vec[a])
    IN  /\ vec' = [vec EXCEPT ![a] = r.v]
        /\ ret' = <<>>
        /\ hist' = <<[op |-> "Vec3.Norm", a |-> a, b |-> a, pre |-> vec,
                      abs |-> r.abs, div |-> r.div]>>
            /\ UNCHANGED <<fuse, h, mat, rng, steps>>

\* Cross(vec[a], vec[b])
CallCross(a, b) ==
    /\ ret' = Cross(fuse, vec[a], vec[b])
    /\ hist' = <<[op |-> "Cross", a |-> a, b |-> b, pre |-> vec,
                  abs |-> PZero, div |-> FALSE]>>
    /\ UNCHANGED <<fuse, vec, h, mat, rng, steps>>

\* vec[a].Add(vec[b])
CallAdd(a, b) ==
    /\ steps < MaxSteps
    /\ vec' = Vec3Add(vec, a, b)
    /\ ret' = <<>>
    /\ Push([op |-> "Add", a |-> a, b |-> b, pre |-> vec])
    /\ steps' = steps + 1
    /\ UNCHANGED <<fuse, h, mat, rng>>

\* vec[a].Sub(vec[b])
CallSub(a, b) ==
    /\ steps < MaxSteps
    /\ vec' = Vec3Sub(vec, a, b)
    /\ ret' = <<>>
    /\ Push([op |-> "Sub", a |-> a, b |-> b, pre |-> vec])
    /\ steps' = steps + 1
    /\ UNCHANGED <<fuse, h, mat, rng>>

\* h = NewVec4(x, y, z)
CallNewVec4(x, y, z) ==
    /\ h' = NewVec4(x, y, z)
    /\ ret' = h'
    /\ Push([op |-> "NewVec4", pre |-> MkVec4(x, y, z, FOne)])
    /\ UNCHANGED <<fuse, vec, mat, rng, steps>>

\* h.Norm()
CallVec4Norm ==
    /\ h' = Vec4Norm(h)
    /\ ret' = <<>>
    /\ Push([op |-> "Vec4.Norm", pre |-> h])
    /\ UNCHANGED <<fuse, vec, mat, rng, steps>>

\* mat[a].Mul(mat[b])
CallMul(a, b) ==
    /\ steps < MaxSteps
    /\ mat' = Mat4Mul(fuse, mat, a, b)
    /\ ret' = <<>>
    /\ Push([op |-> "Mul", a |-> a, b |-> b, pre |-> mat])
    /\ steps' = steps + 1
    /\ UNCHANGED <<fuse, vec, h, rng>>

\* mat[a] = ZeroMat()
CallZeroMat(a) ==
    /\ mat' = [mat EXCEPT ![a] = ZeroMat]
    /\ ret' = ZeroMat
    /\ hist' = <<[op |-> "ZeroMat", a |-> a, mat |-> mat, h |-> h, rng |-> rng]>>
    /\ UNCHANGED <<fuse, vec, h, rng, steps>>

\* mat[a] = RandMat(r)
CallRandMat(a) ==
    /\ rng.pos + MatLen <= MaxDraws
    /\ LET r == RandMat(rng)
       IN  /\ mat' = [mat EXCEPT ![a] = r.m]
           /\ rng' = r.r
           /\ ret' = r.m
    /\ hist' = <<[op |-> "RandMat", a |-> a, mat |-> mat, h |-> h, rng |-> rng]>>
    /\ UNCHANGED <<fuse, vec, h, steps>>

\* mat[a].Transf(h)
CallTransf(a) ==
    /\ ret' = Transf(fuse, mat[a], h)
    /\ hist' = <<[op |-> "Transf", a |-> a, mat |-> mat, h |-> h, rng |-> rng]>>
    /\ UNCHANGED <<fuse, vec, h, mat, rng, steps>>

\* ------------------------------------------------------ specifications

\* Norm and Cross on two Vec3.
NormVals == {PZero, NZero, Fin(0, 1), Fin(1, One), Fin(0, (5 * One) \div 4), NaN}
CrossVals == {Fin(0, (5 * One) \div 4), Fin(1, MaxFin)}
InitVec3 ==
    /\ fuse \in FuseModes
    /\ vec \in {[v |-> x, w |-> y] : x \in [Idx3 -> NormVals], y \in [Idx3 -> CrossVals]}
    /\ h = Zero4
    /\ mat = [n \in MatNames |-> ZeroMat]
    /\ rng = [seed |-> 0, pos |-> 0]
    /\ ret = <<>>
    /\ hist = <<>>
    /\ steps = 0
NextVec3 ==
    \/ \E a \in VecNames : CallVec3Norm(a)
    \/ \E a, b \in VecNames : CallCross(a, b)
SpecVec3 == InitVec3 /\ [][NextVec3]_vars

\* Add and Sub on two Vec3, MaxSteps calls a run.  Neither multiplies, so
\* the build's fusing does not reach them.
AddVals == {PZero, Fin(0, 1), Fin(1, (5 * One) \div 4), Fin(0, MaxFin)}
SubVals == {Fin(0, 1), Fin(1, 6 * One), Fin(0, MaxFin)}
InitAddSub ==
    /\ fuse = "none"
    /\ vec \in {[v |-> x, w |-> y] : x \in [Idx3 -> AddVals], y \in [Idx3 -> SubVals]}
    /\ h = Zero4
    /\ mat = [n \in MatNames |-> ZeroMat]
    /\ rng = [seed |-> 0, pos |-> 0]
    /\ ret = <<>>
    /\ hist = <<>>
    /\ steps = 0
NextAddSub ==
    \/ \E a, b \in VecNames : CallAdd(a, b)
    \/ \E a, b \in VecNames : CallSub(a, b)
SpecAddSub == InitAddSub /\ [][NextAddSub]_vars

\* NewVec4 and Norm on a Vec4.
Vec4Vals == {PZero, NZero, FOne, Fin(1, 3 * One), Fin(0, MaxFin), Inf(0), NaN}
NewVals == {NZero, Fin(0, 3 * One)}
InitVec4 ==
    /\ fuse = "none"
    /\ vec = [n \in VecNames |-> Zero3]
    /\ h \in [Idx4 -> Vec4Vals]
    /\ mat = [n \in MatNames |-> ZeroMat]
    /\ rng = [seed |-> 0, pos |-> 0]
    /\ ret = <<>>
    /\ hist = <<>>
    /\ steps = 0
NextVec4 ==
    \/ \E x, y, z \in NewVals : CallNewVec4(x, y, z)
    \/ CallVec4Norm
SpecVec4 == InitVec4 /\ [][NextVec4]_vars

\* Mul on three Mat4, MaxSteps calls a run, each on the receiver A with any
\* of the three as the argument (A itself included).
Row(x) == x \div MatDim
Col(x) == x % MatDim
\* 1 on the diagonal and just above it.
MatE1 == [x \in IdxM |-> IF Col(x) = Row(x) \/ Col(x) = Row(x) + 1 THEN FOne ELSE PZero]
\* A cyclic shift with one sign flipped and one entry doubled.
MatE2 == [x \in IdxM |->
            IF Col(x) = (Row(x) + 3) % MatDim
            THEN (IF Row(x) = 0 THEN Fin(1, One) ELSE IF Row(x) = 2 THEN Fin(0, 2 * One) ELSE FOne)
            ELSE PZero]
\* The identity with -1 down the first column below it.
MatE3 == [x \in IdxM |->
            IF Col(x) = Row(x) THEN FOne
            ELSE IF Col(x) = 0 THEN Fin(1, One) ELSE PZero]
\* The largest and the smallest values, and a product that needs rounding.
MatX == [x \in IdxM |->
            CASE (x + Row(x)) % 4 = 0 -> Fin(0, MaxFin)
              [] (x + Row(x)) % 4 = 1 -> Fin(0, 1)
              [] (x + Row(x)) % 4 = 2 -> Fin(1, (5 * One) \div 4)
              [] OTHER -> PZero]
MulMats == {ZeroMat, MatE1, MatE2, MatE3, MatX}
InitMul ==
    /\ fuse \in FuseModes
    /\ vec = [n \in VecNames |-> Zero3]
    /\ h = Zero4
    /\ mat \in [MatNames -> MulMats]
    /\ rng = [seed |-> 0, pos |-> 0]
    /\ ret = <<>>
    /\ hist = <<>>
    /\ steps = 0
NextMul == \E b \in MatNames : CallMul("A", b)
SpecMul == InitMul /\ [][NextMul]_vars

\* ZeroMat, RandMat and Transf on the matrix A and the vector h.
TransfVals == {FOne, Fin(1, (5 * One) \div 4), Fin(0, MaxFin), Inf(0)}
InitMat ==
    /\ fuse \in FuseModes
    /\ vec = [n \in VecNames |-> Zero3]
    /\ h \in [Idx4 -> TransfVals]
    /\ mat \in {[n \in MatNames |-> IF n = "A" THEN m ELSE ZeroMat] : m \in {MatE1, MatE2, MatX}}
    /\ rng \in {[seed |-> sd, pos |-> 0] : sd \in 0..MaxSeed}
    /\ ret = <<>>
    /\ hist = <<>>
    /\ steps = 0
NextMat ==
    \/ CallZeroMat("A")
    \/ CallRandMat("A")
    \/ CallTransf("A")
SpecMat == InitMat /\ [][NextMat]_vars

\* ------------------------------------------------------------ the claims

Last == hist[1]
Called(op) == hist # <<>> /\ hist[1].op = op
\* x and y are one value, or equal under Go's ==.
Same(x, y) == x = y \/ Feq(x, y)
\* The spacing of the format at a finite x.
Ulp(x) == 2 ^ Binade(x.n, 1, 0)
\* The real t / One units is a finite value of the format.
ExactVal(t) == Abs(t) % One = 0 /\ Representable(Abs(t) \div One)
\* x * y is computed without rounding or overflow.
ExactProd(x, y) == IsFin(x) /\ IsFin(y) /\ ExactVal(x.n * y.n)
\* x + y is computed without rounding or overflow.
ExactSum(x, y) == IsFin(x) /\ IsFin(y) /\ Representable(Abs(SVal(x) + SVal(y)))

\* sum over k in 0..3 of m[i*4+k] * n[k*4+j], accumulated from 0 in the order of k.
Dot(f, m, n, i, j) ==
    MulAdd(f, MulAdd(f, MulAdd(f, MulAdd(f, PZero,
        m[i * 4], n[j]), m[i * 4 + 1], n[4 + j]), m[i * 4 + 2], n[8 + j]),
        m[i * 4 + 3], n[12 + j])
\* m x n as a fresh matrix.
Product(f, m, n) == [x \in IdxM |-> Dot(f, m, n, Row(x), Col(x))]
\* sum over j in 0..3 of m[i*4+j] * v[j], accumulated from 0 in the order of j.
RowDot(f, m, v, i) ==
    MulAdd(f, MulAdd(f, MulAdd(f, MulAdd(f, PZero,
        m[i * 4], v[0]), m[i * 4 + 1], v[1]), m[i * 4 + 2], v[2]), m[i * 4 + 3], v[3])

\* C1: after m.Mul(n) with m and n distinct arrays, m[i*4+j] is the sum over
\* k of old m[i*4+k] * n[k*4+j] (float64 products, summed from 0 in the
\* order of k), and n and every other array are as before.
C1_MulIsProduct ==
    (Called("Mul") /\ Last.a # Last.b) =>
        /\ \A i, j \in 0..(MatDim - 1) :
              mat[Last.a][i * 4 + j] = Dot(fuse, Last.pre[Last.a], Last.pre[Last.b], i, j)
        /\ \A n \in MatNames \ {Last.a} : mat[n] = Last.pre[n]
\* A Mul of two distinct arrays whose result is neither operand nor symmetric.
C1_Witness ==
    /\ Called("Mul") /\ Last.a # Last.b
    /\ mat[Last.a] # Last.pre[Last.a] /\ mat[Last.a] # Last.pre[Last.b]
    /\ mat[Last.a][1] # mat[Last.a][4]
    /\ \E x \in IdxM : IsFin(mat[Last.a][x]) /\ mat[Last.a][x].n % One # 0

\* C2: after M.Mul(M) the array holds M x M computed from the values M had
\* before the call, as when the product is built in a fresh matrix.
C2_SelfMulIsSquare ==
    (Called("Mul") /\ Last.a = Last.b) =>
        /\ mat[Last.a] = Product(fuse, Last.pre[Last.a], Last.pre[Last.a])
        /\ \A n \in MatNames \ {Last.a} : mat[n] = Last.pre[n]
\* A self-multiplication that changed the matrix.
C2_Witness ==
    /\ Called("Mul") /\ Last.a = Last.b
    /\ mat[Last.a] # Last.pre[Last.a]
    /\ \E x \in IdxM : IsFin(mat[Last.a][x]) /\ mat[Last.a][x].n # 0

\* C3 as claimed: Transf returns the row sums unnormalized, leaves m and v
\* alone, and by the zero matrix maps any vector to (0, 0, 0, 0).
C3_TransfZeroAnyVector ==
    Called("Transf") =>
        /\ \A i \in Idx4 : ret[i] = RowDot(fuse, mat[Last.a], h, i)
        /\ mat = Last.mat /\ h = Last.h
        /\ mat[Last.a] = ZeroMat => \A i \in Idx4 : IsZero(ret[i])
\* C3 as amended: Transf returns p with p[i] the sum over j of m[i*4+j] * v[j]
\* (float64 products, summed from 0 in the order of j), p[3] included, and
\* leaves m and v alone; by the zero matrix it maps every vector whose
\* components are all finite to (0, 0, 0, 0).
C3_TransfRowSums ==
    Called("Transf") =>
        /\ \A i \in Idx4 : ret[i] = RowDot(fuse, mat[Last.a], h, i)
        /\ mat = Last.mat /\ h = Last.h
        /\ (mat[Last.a] = ZeroMat /\ \A j \in Idx4 : IsFin(h[j]))
              => \A i \in Idx4 : ret[i] = PZero
\* A Transf whose fourth component is a raw sum other than 1.
C3_Witness ==
    /\ Called("Transf")
    /\ IsFin(ret[3]) /\ ret[3].n # 0 /\ ret[3] # FOne
    /\ \E i \in Idx4 : ret[i] # ret[3]

\* C4: Norm on a Vec3 whose components are all zero runs no division and
\* leaves the array as it was; the divisions run only when abs != 0.
C4_NormZeroGuarded ==
    Called("Vec3.Norm") =>
        /\ (\A i \in Idx3 : IsZero(Last.pre[Last.a][i]))
              => (~Last.div /\ vec = Last.pre)
        /\ Last.div => ~Feq(Last.abs, PZero)
        /\ ~Last.div => vec = Last.pre
\* Norm called on the zero vector.
C4_Witness ==
    /\ Called("Vec3.Norm")
    /\ Last.pre[Last.a] = Zero3
    /\ vec[Last.a] = Zero3

\* C5: Vec4.Norm replaces x, y, z by their old values divided by the old w,
\* whatever w is, and sets w to 1; a second Norm changes nothing, and Norm
\* after NewVec4(x, y, z) leaves (x, y, z, 1).
C5_Vec4NormDivides ==
    Called("Vec4.Norm") =>
        /\ \A i \in 0..2 : h[i] = Fdiv(Last.pre[i], Last.pre[3])
        /\ h[3] = FOne
        /\ (Len(hist) = 2 /\ hist[2].op = "Vec4.Norm") => h = Last.pre
        /\ (Len(hist) = 2 /\ hist[2].op = "NewVec4") => h = hist[2].pre
\* Norm on a vector with w == 0 and a finite nonzero x.
C5_Witness ==
    /\ Called("Vec4.Norm")
    /\ IsZero(Last.pre[3])
    /\ IsFin(Last.pre[0]) /\ ~IsZero(Last.pre[0])
    /\ IsInf(h[0]) /\ IsNaN(h[1])

\* The component products of Cross(v, w) are all exact.
CrossExact(v, w) == \A i, j \in Idx3 : i # j => ExactProd(v[i], w[j])
\* C6 as claimed: for all v and w, Cross(v, w) is the negated Cross(w, v),
\* Cross(v, v) is the zero vector, and the inputs are unchanged.
C6_CrossAntiCommutes ==
    Called("Cross") =>
        LET v == Last.pre[Last.a]
            w == Last.pre[Last.b]
            back == Vec3Neg(Cross(fuse, w, v))
        IN  /\ vec = Last.pre
            /\ \A i \in Idx3 : Same(ret[i], back[i])
            /\ v = w => \A i \in Idx3 : IsZero(ret[i])
\* C6 as amended: Cross leaves its inputs unchanged.  Cross(v, w) ==
\* -Cross(w, v) component by component (with +0 == -0) and Cross(v, v) is
\* the zero vector whenever the component products are exact (no rounding,
\* no overflow), and, on a build that does not fuse multiply-subtract,
\* whenever no component of the result is NaN.
C6_CrossLaws ==
    Called("Cross") =>
        LET v == Last.pre[Last.a]
            w == Last.pre[Last.b]
            back == Vec3Neg(Cross(fuse, w, v))
            ok == \/ CrossExact(v, w)
                  \/ fuse = "none" /\ \A i \in Idx3 : ~IsNaN(ret[i])
        IN  /\ vec = Last.pre
            /\ ok => \A i \in Idx3 : Feq(ret[i], back[i])
            /\ (ok /\ v = w) => \A i \in Idx3 : IsZero(ret[i])
\* A Cross of two different vectors with exact products and a nonzero
\* result, on a build that fuses.
C6_Witness ==
    /\ Called("Cross") /\ Last.a # Last.b /\ fuse # "none"
    /\ CrossExact(Last.pre[Last.a], Last.pre[Last.b])
    /\ \E i \in Idx3 : ~IsZero(ret[i])

\* C7 as claimed, read as generously as a tolerance allows: v.Add(w) then
\* v.Sub(w), v and w distinct arrays with finite components, returns each
\* component of v to its original value, or at least to a finite one, and
\* leaves w unchanged.
C7_AddSubInverse ==
    (Len(hist) = 2 /\ hist[1].op = "Sub" /\ hist[2].op = "Add"
        /\ hist[1].a = hist[2].a /\ hist[1].b = hist[2].b /\ hist[1].a # hist[1].b) =>
        /\ \A i \in Idx3 :
              (IsFin(hist[2].pre[Last.a][i]) /\ IsFin(hist[2].pre[Last.b][i])) =>
                  \/ Same(vec[Last.a][i], hist[2].pre[Last.a][i])
                  \/ IsFin(vec[Last.a][i])
        /\ vec[Last.b] = hist[2].pre[Last.b] /\ hist[1].pre[Last.b] = hist[2].pre[Last.b]
\* C7 as amended: v.Add(w) then v.Sub(w), v and w distinct arrays, leaves w
\* unchanged by both calls and returns each component of v exactly when the
\* sum v[i] + w[i] is exact (no rounding, no overflow); when neither the
\* sum nor the difference overflows, the component comes back within the
\* rounding error of the two operations, half an ulp of the sum plus half
\* an ulp of the result.
C7_AddSubRoundTrip ==
    (Len(hist) = 2 /\ hist[1].op = "Sub" /\ hist[2].op = "Add"
        /\ hist[1].a = hist[2].a /\ hist[1].b = hist[2].b /\ hist[1].a # hist[1].b) =>
        LET a == Last.a
            b == Last.b
            orig == hist[2].pre
            mid == hist[1].pre
        IN  /\ vec[b] = orig[b] /\ mid[b] = orig[b]
            /\ \A i \in Idx3 :
                  /\ ExactSum(orig[a][i], orig[b][i]) => Feq(vec[a][i], orig[a][i])
                  /\ (/\ IsFin(orig[a][i]) /\ IsFin(orig[b][i])
                      /\ IsFin(mid[a][i]) /\ IsFin(vec[a][i])) =>
                        2 * Abs(SVal(vec[a][i]) - SVal(orig[a][i]))
                            <= Ulp(mid[a][i]) + Ulp(vec[a][i])
\* An Add then Sub with a component whose sum rounded and which came back
\* finite but changed, and a component whose sum was exact.
C7_Witness ==
    /\ Len(hist) = 2 /\ hist[1].op = "Sub" /\ hist[2].op = "Add"
    /\ hist[1].a = hist[2].a /\ hist[1].b = hist[2].b /\ hist[1].a # hist[1].b
    /\ \E i \in Idx3 : /\ IsFin(hist[1].pre[Last.a][i]) /\ IsFin(vec[Last.a][i])
                       /\ ~Feq(vec[Last.a][i], hist[2].pre[Last.a][i])
    /\ \E i \in Idx3 : /\ ExactSum(hist[2].pre[Last.a][i], hist[2].pre[Last.b][i])
                       /\ ~IsZero(hist[2].pre[Last.b][i])

\* C8: RandMat draws 16 values, one per element in index order: element i
\* is the (i+1)-th value the source hands out during the call, and the
\* source ends 16 draws further.
C8_RandMatInOrder ==
    Called("RandMat") =>
        /\ \A i \in IdxM : mat[Last.a][i] = StreamAt(Last.rng.seed, Last.rng.pos + i + 1)
        /\ rng = [Last.rng EXCEPT !.pos = Last.rng.pos + MatLen]
        /\ ret = mat[Last.a]
\* The second RandMat from one source.
C8_Witness ==
    /\ Called("RandMat")
    /\ Last.rng.pos = MatLen
    /\ mat[Last.a][0] # mat[Last.a][1]

\* Every product and every partial sum of m x n is exact.
ExactMul(m, n) ==
    /\ \A x \in IdxM : IsFin(m[x]) /\ IsFin(n[x])
    /\ \A i, j \in 0..(MatDim - 1) :
          LET t0 == SVal(m[i * 4]) * SVal(n[j])
              t1 == SVal(m[i * 4 + 1]) * SVal(n[4 + j])
              t2 == SVal(m[i * 4 + 2]) * SVal(n[8 + j])
              t3 == SVal(m[i * 4 + 3]) * SVal(n[12 + j])
          IN  /\ ExactVal(t0) /\ ExactVal(t1) /\ ExactVal(t2) /\ ExactVal(t3)
              /\ ExactVal(t0 + t1) /\ ExactVal(t0 + t1 + t2)
              /\ ExactVal(t0 + t1 + t2 + t3)
\* a.Mul(b) then a.Mul(c) were the two calls of the run, on three arrays.
TwoMuls ==
    /\ Len(hist) = 2 /\ steps = 2
    /\ hist[1].op = "Mul" /\ hist[2].op = "Mul"
    /\ hist[1].a = hist[2].a
    /\ Cardinality({hist[1].a, hist[2].b, hist[1].b}) = 3
\* A x (B x C) from the arrays as they were, by b.Mul(c) then a.Mul(b).
OtherOrder == Mat4Mul(fuse, Mat4Mul(fuse, hist[2].pre, hist[2].b, hist[1].b),
                      hist[2].a, hist[2].b)[hist[2].a]
C10_NormUnitLength ==
    (/\ Called("Vec3.Norm")
     /\ \A i \in Idx3 : IsFin(Last.pre[Last.a][i])
     /\ \E i \in Idx3 : ~IsZero(Last.pre[Last.a][i])) =>
        LET r == vec[Last.a]
            o == Last.pre[Last.a]
        IN  /\ \A i \in Idx3 : IsFin(r[i]) /\ (IsZero(r[i]) \/ r[i].s = o[i].s)
            /\ 2 * (r[0].n * r[0].n + r[1].n * r[1].n + r[2].n * r[2].n) >= One * One
            /\ r[0].n * r[0].n + r[1].n * r[1].n + r[2].n * r[2].n <= 2 * One * One
====
